---- MODULE Spec2Model ----
(***************************************************************************)
(* Model of the FastAPI application object, src/fastapi/applications.py:   *)
(* construction (__init__ + setup), the registration API and openapi().    *)
(*                                                                         *)
(* Conventions.                                                            *)
(*  - A Python string is a sequence of one-character strings.              *)
(*  - A URL argument is a record [kind, val]: kind "none" is None, kind    *)
(*    "str" a string, kind "int" a number (val holds its digits); the      *)
(*    annotations say Optional[str] but nothing enforces them.             *)
(*  - An Optional value is <<>> (None) or <<v>>.                           *)
(*  - The application's own route list (self.routes) and the router's list *)
(*    (self.router.routes) are two lists, as the source text has them;     *)
(*    self.routes is empty when setup starts (line 114 finds it falsy).    *)
(*  - A middleware list is read outer to inner: index 1 is the outermost.  *)
(***************************************************************************)
EXTENDS Integers, Sequences, FiniteSets, TLC

VARIABLES
    phase,              \* "new" (before construction), "ready", "failed"
    debug,              \* self._debug
    openapi_url,        \* self.openapi_url
    docs_url,           \* self.docs_url
    redoc_url,          \* self.redoc_url
    swagger_ui_oauth2_redirect_url,
    middleware,         \* self.middleware: the constructor-supplied list
    user_middleware,    \* self.user_middleware: the chain, outer to inner
    exception_handlers, \* self.exception_handlers: a function key -> handler
    router_routes,      \* self.router.routes
    routes,             \* self.routes
    on_startup,         \* self.router.on_startup
    on_shutdown,        \* self.router.on_shutdown
    openapi_schema,     \* self._openapi_schema: <<>> or <<document>>
    call,               \* the last call made: [op, a, b]
    ret,                \* what the last call returned or raised
    compiled,           \* whether the last call invoked get_openapi
    ncalls,             \* number of calls made after construction
    it,                 \* setup's reverse iterator: its index into the list
    pc,                 \* per request: position inside openapi()
    local,              \* per request: the document it has compiled
    result              \* per request: what its openapi() call returned

vars == <<phase, debug, openapi_url, docs_url, redoc_url,
          swagger_ui_oauth2_redirect_url, middleware, user_middleware,
          exception_handlers, router_routes, routes, on_startup, on_shutdown,
          openapi_schema, call, ret, compiled, ncalls, it, pc, local,
          result>>

\* what construction fixes: no call made afterwards changes it
cfgVars == <<debug, openapi_url, docs_url, redoc_url,
             swagger_ui_oauth2_redirect_url, middleware, it>>

reqVars == <<pc, local, result>>

----------------------------------------------------------------------------
(* Bounds *)

MaxCalls == 3        \* calls made on one application after construction
MaxCtorMiddleware == 2
NumRequests == 2     \* concurrent requests calling openapi()

----------------------------------------------------------------------------
(* Python values *)

None == <<>>

Some(v) == <<v>>

NoneUrl == [kind |-> "none", val |-> <<>>]

Str(s) == [kind |-> "str", val |-> s]

Num(digits) == [kind |-> "int", val |-> digits]

\* bool(x) for None, a str or an int
Truthy(u) ==
    CASE u.kind = "none" -> FALSE
      [] u.kind = "str"  -> u.val # <<>>
      [] u.kind = "int"  -> u.val # <<"0">>

IsStr(u) == u.kind = "str"

\* str.endswith
EndsWith(s, suffix) ==
    /\ Len(s) >= Len(suffix)
    /\ SubSeq(s, Len(s) - Len(suffix) + 1, Len(s)) = suffix

DotJson == <<".", "j", "s", "o", "n">>

\* bool(d) for a dict d given as a record or function: it has a key
DictTruthy(d) == DOMAIN d # {}

\* what a call returns or raises
Returned(v) == [status |-> "ok", value |-> v]

Raised(exc) == [status |-> exc, value |-> None]

NoArg == ""

\* the arguments of a call that are not plain names: a route list (routes=
\* of the constructor, the router of include_router, the app of mount), a
\* path (prefix of include_router, path of mount), tags, include_in_schema
\* and the exception_handlers= of the constructor
Args(rs, path, tags, include_in_schema, handlers) ==
    [routes |-> rs, path |-> path, tags |-> tags,
     include_in_schema |-> include_in_schema, exception_handlers |-> handlers]

NoArgs == Args(<<>>, <<>>, <<>>, TRUE, [k \in {} |-> ""])

Call(op, a, b) == [op |-> op, a |-> a, b |-> b, args |-> NoArgs]

CallWith(op, args) == [op |-> op, a |-> NoArg, b |-> NoArg, args |-> args]

----------------------------------------------------------------------------
(* Routes and the router (fastapi.routing, starlette.routing) *)

\* a route entry: kind "route", "websocket" or "mount"; app holds the routes
\* of a mounted sub-application
Route(kind, path, endpoint, methods, include_in_schema, tags, app) ==
    [kind |-> kind, path |-> path, endpoint |-> endpoint, methods |-> methods,
     include_in_schema |-> include_in_schema, tags |-> tags, app |-> app]

\* APIRouter.add_route(path, endpoint, methods=None, include_in_schema=...)
router_add_route(rr, path, endpoint, include_in_schema) ==
    Append(rr, Route("route", path, endpoint, "default", include_in_schema,
                     <<>>, <<>>))

\* APIRouter.add_websocket_route(path, endpoint)
router_add_websocket_route(rr, path, endpoint) ==
    Append(rr, Route("websocket", path, endpoint, "", TRUE, <<>>, <<>>))

\* APIRouter.get/post/...(path, **kwargs) applied to a handler
router_api_route(rr, verb, path, include_in_schema, tags) ==
    Append(rr, Route("route", path, "user", verb, include_in_schema, tags,
                     <<>>))

\* one route of an included router, merged with the parent's settings
MergedRoute(r, prefix, tags, include_in_schema) ==
    [r EXCEPT !.path = prefix \o r.path,
              !.tags = tags \o r.tags,
              !.include_in_schema = include_in_schema /\ r.include_in_schema]

RECURSIVE router_include_router(_, _, _, _, _)
\* APIRouter.include_router: the child's routes, in order, each merged
router_include_router(rr, child, prefix, tags, include_in_schema) ==
    IF child = <<>> THEN rr
    ELSE router_include_router(
             Append(rr, MergedRoute(Head(child), prefix, tags,
                                    include_in_schema)),
             Tail(child), prefix, tags, include_in_schema)

\* starlette.routing.Mount(path, app=app)
Mount(path, app) == Route("mount", path, "mount", "", TRUE, <<>>, app)

----------------------------------------------------------------------------
(* The schema compiler (fastapi.openapi.utils.get_openapi) *)

\* the schema entry of one route
PathItem(r) == [path |-> r.path, methods |-> r.methods, tags |-> r.tags]

RECURSIVE Rebased(_, _)
\* the entries of a mounted sub-application's routes, paths re-based
Rebased(prefix, sub) ==
    IF sub = <<>> THEN <<>>
    ELSE (IF Head(sub).kind = "route" /\ Head(sub).include_in_schema
          THEN <<PathItem([Head(sub) EXCEPT !.path = prefix \o @])>>
          ELSE <<>>) \o Rebased(prefix, Tail(sub))

RECURSIVE Paths(_)
\* the entries of a route list, in order, walking mounts
Paths(rs) ==
    IF rs = <<>> THEN <<>>
    ELSE LET r == Head(rs)
         IN  (CASE r.kind = "route" ->
                       IF r.include_in_schema THEN <<PathItem(r)>> ELSE <<>>
                [] r.kind = "mount" -> Rebased(r.path, r.app)
                [] OTHER -> <<>>) \o Paths(Tail(rs))

OpenapiVersion == <<"3", ".", "0", ".", "2">>

\* get_openapi(routes=...): a version-tagged document
get_openapi(rs) == [openapi |-> OpenapiVersion, paths |-> Paths(rs)]

----------------------------------------------------------------------------
(* Middleware entries and the exception handler registry *)

\* starlette.middleware.Middleware(cls, **options); options is the set of
\* <<name, value>> keyword arguments
Middleware(cls, options) == [cls |-> cls, options |-> options]

ServerErrorMiddleware == "ServerErrorMiddleware"

\* list.insert(0, Middleware(middleware_class, **kwargs))
InsertFront(um, cls, options) == <<Middleware(cls, options)>> \o um

RECURSIVE AddEach(_, _)
\* for middleware in self.middleware: self.add_middleware(...)
AddEach(um, ms) ==
    IF ms = <<>> THEN um
    ELSE AddEach(InsertFront(um, Head(ms).cls, Head(ms).options), Tail(ms))

RECURSIVE ReversedLoop(_, _)
\* for middleware in reversed(self.user_middleware): self.add_middleware(...)
\* The reverse iterator holds an index into the live list: it yields
\* um[index] while the index is inside the list and steps the index down,
\* and each iteration inserts at the front of that same list.
ReversedLoop(um, index) ==
    IF index >= 1 /\ index <= Len(um)
    THEN ReversedLoop(InsertFront(um, um[index].cls, um[index].options),
                      index - 1)
    ELSE um

\* {}
EmptyDict == [k \in {} |-> ""]

\* d[key] = value on a dict
DictSet(d, key, value) ==
    [k \in DOMAIN d \cup {key} |-> IF k = key THEN value ELSE d[k]]

StarletteHTTPException == "StarletteHTTPException"

RequestValidationError == "RequestValidationError"

http_exception_handler == "http_exception_handler"

request_validation_exception_handler == "request_validation_exception_handler"

----------------------------------------------------------------------------
(* Construction: __init__ and setup *)

\* the schema route, were the URL's suffix not checked
SetupOpenapi_NoSuffixCheck(a) ==
    IF ~Truthy(a.openapi_url) THEN a
    ELSE IF ~IsStr(a.openapi_url)
    THEN [a EXCEPT !.raised = "AssertionError: openapi_url"]
    ELSE [a EXCEPT !.router_routes =
              router_add_route(@, a.openapi_url.val, "openapi", FALSE)]

\* lines 124-130: the schema route
SetupOpenapi(a) ==
    IF ~Truthy(a.openapi_url) THEN a
    ELSE IF ~(IsStr(a.openapi_url) /\ EndsWith(a.openapi_url.val, DotJson))
    THEN [a EXCEPT !.raised = "AssertionError: openapi_url"]
    ELSE [a EXCEPT !.router_routes =
              router_add_route(@, a.openapi_url.val, "openapi", FALSE)]

\* the documentation routes, were the redirect helper registered whether
\* or not the documentation URL is set
SetupDocs_RedirectAlways(a) ==
    IF a.raised # "" THEN a
    ELSE IF Truthy(a.docs_url) /\ ~IsStr(a.docs_url)
    THEN [a EXCEPT !.raised = "AssertionError: docs_url"]
    ELSE LET withDocs == IF Truthy(a.docs_url)
                         THEN router_add_route(a.router_routes, a.docs_url.val,
                                               "swagger_ui_html", FALSE)
                         ELSE a.router_routes
         IN  [a EXCEPT !.router_routes =
                  IF Truthy(a.swagger_ui_oauth2_redirect_url)
                  THEN router_add_route(withDocs,
                                        a.swagger_ui_oauth2_redirect_url.val,
                                        "swagger_ui_redirect", FALSE)
                  ELSE withDocs]

\* lines 133-151: the documentation route and the OAuth2 redirect helper
SetupDocs(a) ==
    IF a.raised # "" \/ ~Truthy(a.docs_url) THEN a
    ELSE IF ~IsStr(a.docs_url)
    THEN [a EXCEPT !.raised = "AssertionError: docs_url"]
    ELSE LET withDocs == router_add_route(a.router_routes, a.docs_url.val,
                                          "swagger_ui_html", FALSE)
         IN  [a EXCEPT !.router_routes =
                  IF Truthy(a.swagger_ui_oauth2_redirect_url)
                  THEN router_add_route(withDocs,
                                        a.swagger_ui_oauth2_redirect_url.val,
                                        "swagger_ui_redirect", FALSE)
                  ELSE withDocs]

\* lines 154-162: the second documentation route
SetupRedoc(a) ==
    IF a.raised # "" \/ ~Truthy(a.redoc_url) THEN a
    ELSE IF ~IsStr(a.redoc_url)
    THEN [a EXCEPT !.raised = "AssertionError: redoc_url"]
    ELSE [a EXCEPT !.router_routes =
              router_add_route(@, a.redoc_url.val, "redoc_html", FALSE)]

\* lines 164-165: self.routes.extend(self.router.routes)
SetupRoutes(a) ==
    IF a.raised # "" THEN a
    ELSE [a EXCEPT !.routes = @ \o a.router_routes]

\* lines 167-172: the error boundary, then the constructor's middleware
InstallFirst(a) ==
    IF a.raised # "" THEN a
    ELSE [a EXCEPT !.user_middleware =
              AddEach(InsertFront(@, ServerErrorMiddleware,
                                  {<<"debug", a.debug>>}),
                      a.middleware)]

\* lines 167-176: the middleware installation
SetupMiddleware(a) ==
    IF a.raised # "" THEN a
    ELSE LET um2 == InstallFirst(a).user_middleware
         IN  [a EXCEPT !.user_middleware = ReversedLoop(um2, Len(um2))]

\* the built-in exception handlers, were a supplied handler kept
SetupExceptionHandlers_KeepsSupplied(a) ==
    LET d == a.exception_handlers
        d1 == IF StarletteHTTPException \in DOMAIN d THEN d
              ELSE DictSet(d, StarletteHTTPException, http_exception_handler)
        d2 == IF RequestValidationError \in DOMAIN d1 THEN d1
              ELSE DictSet(d1, RequestValidationError,
                           request_validation_exception_handler)
    IN  [a EXCEPT !.exception_handlers = d2]

\* lines 117-121: the two built-in exception handlers
SetupExceptionHandlers(a) ==
    [a EXCEPT !.exception_handlers =
        DictSet(DictSet(@, StarletteHTTPException, http_exception_handler),
                RequestValidationError, request_validation_exception_handler)]

\* setup(), were the routes copied before the built-in routes are registered
setup_CopiesRoutesFirst(a) ==
    SetupMiddleware(SetupRedoc(SetupDocs(SetupOpenapi(SetupRoutes(
        SetupExceptionHandlers([a EXCEPT !.routes = <<>>]))))))

\* lines 113-165: setup() up to the middleware installation
SetupBeforeMiddleware(a) ==
    SetupRoutes(SetupRedoc(SetupDocs(SetupOpenapi(
        SetupExceptionHandlers([a EXCEPT !.routes = <<>>])))))

\* setup(): a is the object as __init__ left it
setup(a) == SetupMiddleware(SetupBeforeMiddleware(a))

\* lines 70-109: the object as __init__ leaves it for setup
Object(dbg, rts, ourl, durl, rurl, surl, mws, ehs) ==
    [debug |-> dbg,
     router_routes |-> rts,
     routes |-> <<>>,
     openapi_url |-> ourl,
     docs_url |-> durl,
     redoc_url |-> rurl,
     swagger_ui_oauth2_redirect_url |-> surl,
     middleware |-> mws,
     user_middleware |-> <<>>,
     exception_handlers |-> ehs,
     raised |-> ""]

\* the object's fields take the values of a
Becomes(a) ==
    /\ debug' = a.debug
    /\ openapi_url' = a.openapi_url
    /\ docs_url' = a.docs_url
    /\ redoc_url' = a.redoc_url
    /\ swagger_ui_oauth2_redirect_url' = a.swagger_ui_oauth2_redirect_url
    /\ middleware' = a.middleware
    /\ user_middleware' = a.user_middleware
    /\ exception_handlers' = a.exception_handlers
    /\ router_routes' = a.router_routes
    /\ routes' = a.routes

\* FastAPI(debug=..., routes=..., openapi_url=..., ...): __init__, then setup
Construct(dbg, rts, ourl, durl, rurl, surl, mws, ehs, startup, shutdown) ==
    /\ phase = "new"
    /\ LET a == setup(Object(dbg, rts, ourl, durl, rurl, surl, mws, ehs))
       IN  /\ phase' = IF a.raised = "" THEN "ready" ELSE "failed"
           /\ ret' = IF a.raised = "" THEN Returned(None) ELSE Raised(a.raised)
           /\ Becomes(a)
    /\ on_startup' = startup
    /\ on_shutdown' = shutdown
    /\ openapi_schema' = None
    /\ call' = CallWith("__init__", Args(rts, <<>>, <<>>, TRUE, ehs))
    /\ compiled' = FALSE
    /\ it' = 0
    /\ UNCHANGED <<ncalls, reqVars>>

----------------------------------------------------------------------------
(* Construction with the loop of lines 173-176 taken one iteration at a     *)
(* time: phase "setup" is the constructor inside that loop                  *)

\* __init__ and setup() up to line 173, where reversed() makes an iterator
\* whose index is the last position of self.user_middleware
ConstructToLoop(dbg, rts, ourl, durl, rurl, surl, mws, ehs, su, sd) ==
    /\ phase = "new"
    /\ LET a == InstallFirst(SetupBeforeMiddleware(
                    Object(dbg, rts, ourl, durl, rurl, surl, mws, ehs)))
       IN  /\ phase' = IF a.raised = "" THEN "setup" ELSE "failed"
           /\ ret' = IF a.raised = "" THEN Returned(None) ELSE Raised(a.raised)
           /\ Becomes(a)
           /\ it' = Len(a.user_middleware)
    /\ on_startup' = su
    /\ on_shutdown' = sd
    /\ openapi_schema' = None
    /\ call' = CallWith("__init__", Args(rts, <<>>, <<>>, TRUE, ehs))
    /\ compiled' = FALSE
    /\ UNCHANGED <<ncalls, reqVars>>

\* the loop, were it to walk the list forwards
LoopStep_Forwards ==
    /\ phase = "setup"
    /\ it >= 1 /\ it <= Len(user_middleware)
    /\ user_middleware' = InsertFront(user_middleware,
                                      user_middleware[it].cls,
                                      user_middleware[it].options)
    /\ it' = it + 1
    /\ UNCHANGED <<phase, debug, openapi_url, docs_url, redoc_url,
                   swagger_ui_oauth2_redirect_url, middleware,
                   exception_handlers, router_routes, routes, on_startup,
                   on_shutdown, openapi_schema, call, ret, compiled, ncalls,
                   reqVars>>

\* lines 173-176, one iteration: the iterator's index is inside the list, it
\* yields that entry and steps down, and add_middleware inserts at the front
LoopStep ==
    /\ phase = "setup"
    /\ it >= 1 /\ it <= Len(user_middleware)
    /\ user_middleware' = InsertFront(user_middleware,
                                      user_middleware[it].cls,
                                      user_middleware[it].options)
    /\ it' = it - 1
    /\ UNCHANGED <<phase, debug, openapi_url, docs_url, redoc_url,
                   swagger_ui_oauth2_redirect_url, middleware,
                   exception_handlers, router_routes, routes, on_startup,
                   on_shutdown, openapi_schema, call, ret, compiled, ncalls,
                   reqVars>>

\* line 173: the iterator is exhausted; setup and __init__ return
LoopExit ==
    /\ phase = "setup"
    /\ ~(it >= 1 /\ it <= Len(user_middleware))
    /\ phase' = "ready"
    /\ it' = 0
    /\ UNCHANGED <<debug, openapi_url, docs_url, redoc_url,
                   swagger_ui_oauth2_redirect_url, middleware,
                   user_middleware, exception_handlers, router_routes, routes,
                   on_startup, on_shutdown, openapi_schema, call, ret,
                   compiled, ncalls, reqVars>>

----------------------------------------------------------------------------
(* The registration API, one call at a time *)

\* a call can be made: the application exists and no request is in flight
CanCall ==
    /\ phase = "ready"
    /\ ncalls < MaxCalls
    /\ \A t \in DOMAIN pc : pc[t] = "idle"

\* the bookkeeping of a call c that returns None
Did(c) ==
    /\ call' = c
    /\ ret' = Returned(None)
    /\ compiled' = FALSE
    /\ ncalls' = ncalls + 1
    /\ UNCHANGED <<phase, cfgVars, reqVars>>

Called(op, a, b) == Did(Call(op, a, b))

\* lines 265-276
add_route(path, include_in_schema) ==
    /\ CanCall
    /\ router_routes' = router_add_route(router_routes, path, "user",
                                         include_in_schema)
    /\ Called("add_route", NoArg, NoArg)
    /\ UNCHANGED <<routes, user_middleware, exception_handlers, on_startup,
                   on_shutdown, openapi_schema>>

\* lines 278-285
add_websocket_route(path) ==
    /\ CanCall
    /\ router_routes' = router_add_websocket_route(router_routes, path, "user")
    /\ Called("add_websocket_route", NoArg, NoArg)
    /\ UNCHANGED <<routes, user_middleware, exception_handlers, on_startup,
                   on_shutdown, openapi_schema>>

\* lines 224-246: each verb shorthand delegates to the router's
VerbShorthand(verb, path, include_in_schema) ==
    /\ CanCall
    /\ router_routes' = router_api_route(router_routes, verb, path,
                                         include_in_schema, <<>>)
    /\ Called(verb, NoArg, NoArg)
    /\ UNCHANGED <<routes, user_middleware, exception_handlers, on_startup,
                   on_shutdown, openapi_schema>>

get(path, include_in_schema) == VerbShorthand("GET", path, include_in_schema)

post(path, include_in_schema) == VerbShorthand("POST", path, include_in_schema)

put(path, include_in_schema) == VerbShorthand("PUT", path, include_in_schema)

delete(path, include_in_schema) ==
    VerbShorthand("DELETE", path, include_in_schema)

options(path, include_in_schema) ==
    VerbShorthand("OPTIONS", path, include_in_schema)

head(path, include_in_schema) == VerbShorthand("HEAD", path, include_in_schema)

patch(path, include_in_schema) ==
    VerbShorthand("PATCH", path, include_in_schema)

trace(path, include_in_schema) ==
    VerbShorthand("TRACE", path, include_in_schema)

\* include_router, were the prefix not handed on to the router
include_router_DropsPrefix(router, prefix, tags, include_in_schema) ==
    /\ CanCall
    /\ router_routes' = router_include_router(router_routes, router, <<>>,
                                              tags, include_in_schema)
    /\ Did(CallWith("include_router",
                    Args(router, prefix, tags, include_in_schema, EmptyDict)))
    /\ UNCHANGED <<routes, user_middleware, exception_handlers, on_startup,
                   on_shutdown, openapi_schema>>

\* include_router, were include_in_schema not handed on to the router
include_router_DropsFlag(router, prefix, tags, include_in_schema) ==
    /\ CanCall
    /\ router_routes' = router_include_router(router_routes, router, prefix,
                                              tags, TRUE)
    /\ Did(CallWith("include_router",
                    Args(router, prefix, tags, include_in_schema, EmptyDict)))
    /\ UNCHANGED <<routes, user_middleware, exception_handlers, on_startup,
                   on_shutdown, openapi_schema>>

\* lines 197-222
include_router(router, prefix, tags, include_in_schema) ==
    /\ CanCall
    /\ router_routes' = router_include_router(router_routes, router, prefix,
                                              tags, include_in_schema)
    /\ Did(CallWith("include_router",
                    Args(router, prefix, tags, include_in_schema, EmptyDict)))
    /\ UNCHANGED <<routes, user_middleware, exception_handlers, on_startup,
                   on_shutdown, openapi_schema>>

\* mount, were it to drop the cached document
mount_Invalidating(path, app) ==
    /\ CanCall
    /\ routes' = Append(routes, Mount(path, app))
    /\ openapi_schema' = None
    /\ Called("mount", NoArg, NoArg)
    /\ UNCHANGED <<router_routes, user_middleware, exception_handlers,
                   on_startup, on_shutdown>>

\* mount, were it to hand the entry to the router
mount_ViaRouter(path, app) ==
    /\ CanCall
    /\ router_routes' = Append(router_routes, Mount(path, app))
    /\ Did(CallWith("mount", Args(app, path, <<>>, TRUE, EmptyDict)))
    /\ UNCHANGED <<routes, user_middleware, exception_handlers, on_startup,
                   on_shutdown, openapi_schema>>

\* lines 291-293
mount(path, app) ==
    /\ CanCall
    /\ routes' = Append(routes, Mount(path, app))
    /\ Did(CallWith("mount", Args(app, path, <<>>, TRUE, EmptyDict)))
    /\ UNCHANGED <<router_routes, user_middleware, exception_handlers,
                   on_startup, on_shutdown, openapi_schema>>

\* lines 248-249
add_middleware(middleware_class, kwargs) ==
    /\ CanCall
    /\ user_middleware' = InsertFront(user_middleware, middleware_class, kwargs)
    /\ Called("add_middleware", middleware_class, NoArg)
    /\ UNCHANGED <<router_routes, routes, exception_handlers, on_startup,
                   on_shutdown, openapi_schema>>

\* add_exception_handler, were it to keep a key's first handler
add_exception_handler_FirstWins(exc_class_or_status_code, handler) ==
    /\ CanCall
    /\ exception_handlers' =
           IF exc_class_or_status_code \in DOMAIN exception_handlers
           THEN exception_handlers
           ELSE DictSet(exception_handlers, exc_class_or_status_code, handler)
    /\ Called("add_exception_handler", exc_class_or_status_code, handler)
    /\ UNCHANGED <<router_routes, routes, user_middleware, on_startup,
                   on_shutdown, openapi_schema>>

\* lines 251-256
add_exception_handler(exc_class_or_status_code, handler) ==
    /\ CanCall
    /\ exception_handlers' =
           DictSet(exception_handlers, exc_class_or_status_code, handler)
    /\ Called("add_exception_handler", exc_class_or_status_code, handler)
    /\ UNCHANGED <<router_routes, routes, user_middleware, on_startup,
                   on_shutdown, openapi_schema>>

\* add_event_handler, were the assertion of line 259 not made
add_event_handler_NoAssert(event_type, func) ==
    /\ CanCall
    /\ call' = Call("add_event_handler", event_type, func)
    /\ compiled' = FALSE
    /\ ncalls' = ncalls + 1
    /\ ret' = Returned(None)
    /\ IF event_type = "startup"
       THEN /\ on_startup' = Append(on_startup, func)
            /\ UNCHANGED on_shutdown
       ELSE /\ on_shutdown' = Append(on_shutdown, func)
            /\ UNCHANGED on_startup
    /\ UNCHANGED <<phase, cfgVars, reqVars, router_routes, routes,
                   user_middleware, exception_handlers, openapi_schema>>

\* lines 258-263
add_event_handler(event_type, func) ==
    /\ CanCall
    /\ call' = Call("add_event_handler", event_type, func)
    /\ compiled' = FALSE
    /\ ncalls' = ncalls + 1
    /\ IF event_type \notin {"startup", "shutdown"}
       THEN /\ ret' = Raised("AssertionError: event_type")
            /\ UNCHANGED <<on_startup, on_shutdown>>
       ELSE /\ ret' = Returned(None)
            /\ IF event_type = "startup"
               THEN /\ on_startup' = Append(on_startup, func)
                    /\ UNCHANGED on_shutdown
               ELSE /\ on_shutdown' = Append(on_shutdown, func)
                    /\ UNCHANGED on_startup
    /\ UNCHANGED <<phase, cfgVars, reqVars, router_routes, routes,
                   user_middleware, exception_handlers, openapi_schema>>

----------------------------------------------------------------------------
(* openapi() *)

\* `if self._openapi_schema`: the cache holds a non-empty dict
SchemaTruthy(schema) == schema # None /\ DictTruthy(schema[1])

\* openapi(), were it to compile on every call
openapi_NoCache ==
    /\ CanCall
    /\ call' = Call("openapi", NoArg, NoArg)
    /\ ncalls' = ncalls + 1
    /\ IF ~Truthy(openapi_url)
       THEN /\ ret' = Raised("RuntimeError")
            /\ compiled' = FALSE
            /\ UNCHANGED openapi_schema
       ELSE /\ openapi_schema' = Some(get_openapi(routes))
            /\ ret' = Returned(openapi_schema')
            /\ compiled' = TRUE
    /\ UNCHANGED <<phase, cfgVars, reqVars, router_routes, routes,
                   user_middleware, exception_handlers, on_startup,
                   on_shutdown>>

\* openapi(), were it to skip the check of the schema URL
openapi_NoUrlCheck ==
    /\ CanCall
    /\ call' = Call("openapi", NoArg, NoArg)
    /\ ncalls' = ncalls + 1
    /\ IF SchemaTruthy(openapi_schema)
       THEN /\ ret' = Returned(openapi_schema)
            /\ compiled' = FALSE
            /\ UNCHANGED openapi_schema
       ELSE /\ openapi_schema' = Some(get_openapi(routes))
            /\ ret' = Returned(openapi_schema')
            /\ compiled' = TRUE
    /\ UNCHANGED <<phase, cfgVars, reqVars, router_routes, routes,
                   user_middleware, exception_handlers, on_startup,
                   on_shutdown>>

\* lines 178-195, run without interruption
openapi ==
    /\ CanCall
    /\ call' = Call("openapi", NoArg, NoArg)
    /\ ncalls' = ncalls + 1
    /\ IF ~Truthy(openapi_url)
       THEN /\ ret' = Raised("RuntimeError")
            /\ compiled' = FALSE
            /\ UNCHANGED openapi_schema
       ELSE IF SchemaTruthy(openapi_schema)
       THEN /\ ret' = Returned(openapi_schema)
            /\ compiled' = FALSE
            /\ UNCHANGED openapi_schema
       ELSE /\ openapi_schema' = Some(get_openapi(routes))
            /\ ret' = Returned(openapi_schema')
            /\ compiled' = TRUE
    /\ UNCHANGED <<phase, cfgVars, reqVars, router_routes, routes,
                   user_middleware, exception_handlers, on_startup,
                   on_shutdown>>

----------------------------------------------------------------------------
(* openapi() called by concurrent requests: one step per read or write of   *)
(* shared state; the schema route's handler runs openapi() for each request *)

\* a request can run: the application exists
Serving == phase = "ready"

\* the schema route's handler is entered (line 129)
req_start(t) ==
    /\ Serving
    /\ pc[t] = "idle"
    /\ pc' = [pc EXCEPT ![t] = "l179"]
    /\ UNCHANGED <<phase, cfgVars, user_middleware, exception_handlers,
                   router_routes, routes, on_startup, on_shutdown,
                   openapi_schema, call, ret, compiled, ncalls, local, result>>

\* lines 179-180
req_check_url(t) ==
    /\ pc[t] = "l179"
    /\ IF ~Truthy(openapi_url)
       THEN /\ result' = [result EXCEPT ![t] = Raised("RuntimeError")]
            /\ pc' = [pc EXCEPT ![t] = "done"]
       ELSE /\ pc' = [pc EXCEPT ![t] = "l181"]
            /\ UNCHANGED result
    /\ UNCHANGED <<phase, cfgVars, user_middleware, exception_handlers,
                   router_routes, routes, on_startup, on_shutdown,
                   openapi_schema, call, ret, compiled, ncalls, local>>

\* line 181
req_check_cache(t) ==
    /\ pc[t] = "l181"
    /\ pc' = [pc EXCEPT ![t] = IF SchemaTruthy(openapi_schema)
                               THEN "l182" ELSE "l183"]
    /\ UNCHANGED <<phase, cfgVars, user_middleware, exception_handlers,
                   router_routes, routes, on_startup, on_shutdown,
                   openapi_schema, call, ret, compiled, ncalls, local, result>>

\* line 182
req_return_cached(t) ==
    /\ pc[t] = "l182"
    /\ result' = [result EXCEPT ![t] = Returned(openapi_schema)]
    /\ pc' = [pc EXCEPT ![t] = "done"]
    /\ UNCHANGED <<phase, cfgVars, user_middleware, exception_handlers,
                   router_routes, routes, on_startup, on_shutdown,
                   openapi_schema, call, ret, compiled, ncalls, local>>

\* the compilation, were it to publish the document before the paths are in
req_compile_PublishesEarly(t) ==
    /\ pc[t] = "l183"
    /\ local' = [local EXCEPT ![t] = Some(get_openapi(routes))]
    /\ openapi_schema' = Some(get_openapi(<<>>))
    /\ pc' = [pc EXCEPT ![t] = "l183_store"]
    /\ UNCHANGED <<phase, cfgVars, user_middleware, exception_handlers,
                   router_routes, routes, on_startup, on_shutdown,
                   call, ret, compiled, ncalls, result>>

\* lines 183-194: the call of get_openapi(routes=self.routes, ...)
req_compile(t) ==
    /\ pc[t] = "l183"
    /\ local' = [local EXCEPT ![t] = Some(get_openapi(routes))]
    /\ pc' = [pc EXCEPT ![t] = "l183_store"]
    /\ UNCHANGED <<phase, cfgVars, user_middleware, exception_handlers,
                   router_routes, routes, on_startup, on_shutdown,
                   openapi_schema, call, ret, compiled, ncalls, result>>

\* line 183: the assignment to self._openapi_schema
req_store(t) ==
    /\ pc[t] = "l183_store"
    /\ openapi_schema' = local[t]
    /\ pc' = [pc EXCEPT ![t] = "l195"]
    /\ UNCHANGED <<phase, cfgVars, user_middleware, exception_handlers,
                   router_routes, routes, on_startup, on_shutdown,
                   call, ret, compiled, ncalls, local, result>>

\* line 195
req_return(t) ==
    /\ pc[t] = "l195"
    /\ result' = [result EXCEPT ![t] = Returned(openapi_schema)]
    /\ pc' = [pc EXCEPT ![t] = "done"]
    /\ UNCHANGED <<phase, cfgVars, user_middleware, exception_handlers,
                   router_routes, routes, on_startup, on_shutdown,
                   openapi_schema, call, ret, compiled, ncalls, local>>

----------------------------------------------------------------------------
(* Inputs *)

\* the constructor's defaults, lines 41-48
DefaultOpenapiUrl == Str(<<"/", "o", "p", "e", "n", "a", "p", "i", ".", "j", "s", "o", "n">>)

DefaultDocsUrl == Str(<<"/", "d", "o", "c", "s">>)

DefaultRedocUrl == Str(<<"/", "r", "e", "d", "o", "c">>)

DefaultOauth2RedirectUrl == Str(<<"/", "d", "o", "c", "s", "/", "o", "a", "u", "t", "h", "2", "-", "r", "e", "d", "i", "r", "e", "c", "t">>)

\* paths the application's author registers
PathA == <<"/", "a">>

PathB == <<"/", "b">>

UserPaths == {PathA, PathB}

UserRoute(path, include_in_schema, tags) ==
    Route("route", path, "user", "GET", include_in_schema, tags, <<>>)

\* routes=... of the constructor
CtorRoutes == {<<>>, <<UserRoute(<<"/", "r">>, TRUE, <<>>)>>}

\* routers handed to include_router
ChildRouters ==
    {<<UserRoute(<<"/", "c">>, TRUE, <<"c">>)>>,
     <<UserRoute(<<"/", "c">>, TRUE, <<>>), UserRoute(<<"/", "d">>, FALSE, <<"d">>)>>}

PrefixX == <<"/", "x">>

Prefixes == {<<>>, PrefixX}

\* sub-applications handed to mount
MountedApps == {<<>>, <<UserRoute(<<"/", "s">>, TRUE, <<>>)>>}

SchemaUrls == {NoneUrl, Str(<<>>), DefaultOpenapiUrl}

ExceptionKeys == {StarletteHTTPException, "404"}

Handlers == {"h1", "h2"}

EventTypes == {"startup", "shutdown", "start"}

AddedMiddleware == {"C", "D"}

Requests == 1..NumRequests

----------------------------------------------------------------------------
(* The application driven through its API, one call at a time *)

Init ==
    /\ phase = "new"
    /\ debug = FALSE
    /\ openapi_url = NoneUrl
    /\ docs_url = NoneUrl
    /\ redoc_url = NoneUrl
    /\ swagger_ui_oauth2_redirect_url = NoneUrl
    /\ middleware = <<>>
    /\ user_middleware = <<>>
    /\ exception_handlers = EmptyDict
    /\ router_routes = <<>>
    /\ routes = <<>>
    /\ on_startup = <<>>
    /\ on_shutdown = <<>>
    /\ openapi_schema = None
    /\ call = Call("", NoArg, NoArg)
    /\ ret = Returned(None)
    /\ compiled = FALSE
    /\ ncalls = 0
    /\ it = 0
    /\ pc = [t \in Requests |-> "idle"]
    /\ local = [t \in Requests |-> None]
    /\ result = [t \in Requests |-> Returned(None)]

Next ==
    \/ \E rts \in CtorRoutes, ourl \in SchemaUrls :
           Construct(FALSE, rts, ourl, DefaultDocsUrl, DefaultRedocUrl,
                     DefaultOauth2RedirectUrl, <<>>, EmptyDict, <<>>, <<>>)
    \/ \E p \in UserPaths : add_route(p, TRUE)
    \/ add_websocket_route(PathA)
    \/ \E s \in BOOLEAN : get(PathA, s)
    \/ post(PathA, TRUE)
    \/ put(PathA, TRUE)
    \/ delete(PathA, TRUE)
    \/ options(PathA, TRUE)
    \/ head(PathA, TRUE)
    \/ patch(PathA, TRUE)
    \/ trace(PathA, TRUE)
    \/ \E r \in ChildRouters : include_router(r, PrefixX, <<"t">>, TRUE)
    \/ \E a \in MountedApps : mount(PathB, a)
    \/ add_middleware("C", {})
    \/ \E k \in ExceptionKeys, h \in Handlers : add_exception_handler(k, h)
    \/ \E e \in EventTypes : add_event_handler(e, "h1")
    \/ openapi

Spec == Init /\ [][Next]_vars

----------------------------------------------------------------------------
(* Properties of the schema compiler and its cache *)

\* a call was just made (the step is a call, not a stutter)
IsCall(op) == call'.op = op /\ ncalls' = ncalls + 1

\* every schema entry of route r is an entry of the document
InDocument(r, doc) ==
    \A i \in DOMAIN Paths(<<r>>) :
        \E j \in DOMAIN doc.paths : doc.paths[j] = Paths(<<r>>)[i]

\* C3: the document the first openapi() call compiles holds the schema
\* entries of every route registered before the call: the router's routes
\* (constructor, verb shorthands, add_route, include_router) and the mounts.
C3_CompiledFromRegistered ==
    (call.op = "openapi" /\ compiled) =>
        /\ \A i \in DOMAIN router_routes :
               InDocument(router_routes[i], ret.value[1])
        /\ \A i \in DOMAIN routes : InDocument(routes[i], ret.value[1])

\* C4: an openapi() call that directly follows a successful openapi() call
\* returns the same document, compiles nothing and leaves the cache alone.
C4_SecondCallHitsCache ==
    [][(call.op = "openapi" /\ ret.status = "ok" /\ IsCall("openapi")) =>
           /\ ret' = ret
           /\ ~compiled'
           /\ openapi_schema' = openapi_schema]_vars

\* two calls were made, and the second was an openapi() served from the
\* cache: the first was the openapi() call that filled it
C4_Witness ==
    /\ ncalls = 2
    /\ call.op = "openapi"
    /\ ret.status = "ok"
    /\ ~compiled

\* C5: once a document is stored no step changes or clears it, and every
\* later openapi() call returns it without compiling.
C5_CacheNeverChanges ==
    [][openapi_schema # None =>
           /\ openapi_schema' = openapi_schema
           /\ IsCall("openapi") =>
                  ret' = Returned(openapi_schema) /\ ~compiled']_vars

\* an openapi() call returned the stored document although the route list
\* has changed since it was compiled
C5_Witness ==
    /\ openapi_schema # None
    /\ call.op = "openapi"
    /\ ret = Returned(openapi_schema)
    /\ openapi_schema[1] # get_openapi(routes)

IsSchemaRoute(r) == r.endpoint = "openapi"

\* C6: with the schema URL unset no schema route exists, the cache stays
\* unset, and an openapi() call raises without compiling.
C6_DisabledSchema ==
    (phase = "ready" /\ ~Truthy(openapi_url)) =>
        /\ \A i \in DOMAIN router_routes : ~IsSchemaRoute(router_routes[i])
        /\ \A i \in DOMAIN routes : ~IsSchemaRoute(routes[i])
        /\ openapi_schema = None
        /\ call.op = "openapi" => (ret = Raised("RuntimeError") /\ ~compiled)

\* openapi() was called twice on an application without schema URL
C6_Witness ==
    /\ phase = "ready"
    /\ ~Truthy(openapi_url)
    /\ ncalls = 2
    /\ call.op = "openapi"
    /\ ret.status = "RuntimeError"

----------------------------------------------------------------------------
(* Properties of the exception handler registry *)

\* C8: add_exception_handler(key, handler) returns normally, maps key to
\* handler whether or not key was mapped before, and changes no other key.
C8_LastWriteWins ==
    [][IsCall("add_exception_handler") =>
           /\ ret'.status = "ok"
           /\ DOMAIN exception_handlers' =
                  DOMAIN exception_handlers \cup {call'.a}
           /\ exception_handlers'[call'.a] = call'.b
           /\ \A k \in DOMAIN exception_handlers \ {call'.a} :
                  exception_handlers'[k] = exception_handlers[k]]_vars

\* a key registered before (by setup) was registered again
C8_Witness ==
    /\ call = Call("add_exception_handler", StarletteHTTPException, "h2")
    /\ exception_handlers[StarletteHTTPException] = "h2"
    /\ exception_handlers[RequestValidationError] =
           request_validation_exception_handler

----------------------------------------------------------------------------
(* Construction over the URL arguments *)

OpenapiUrlValues ==
    {NoneUrl, Str(<<>>), DefaultOpenapiUrl, Str(<<"/", "o", "p", "e", "n", "a", "p", "i">>), Str(<<"/", "a", ".", "j", "s", "o", "n", "x">>),
     Num(<<"5">>), Num(<<"0">>)}

DocsUrlValues == {NoneUrl, Str(<<>>), DefaultDocsUrl, Num(<<"5">>)}

RedocUrlValues == {NoneUrl, Str(<<>>), DefaultRedocUrl, Num(<<"5">>)}

Oauth2RedirectUrlValues == {NoneUrl, Str(<<>>), DefaultOauth2RedirectUrl}

NextSetup ==
    \/ \E rts \in CtorRoutes, ourl \in OpenapiUrlValues,
          durl \in DocsUrlValues, rurl \in RedocUrlValues,
          surl \in Oauth2RedirectUrlValues :
           Construct(FALSE, rts, ourl, durl, rurl, surl, <<>>, EmptyDict,
                     <<>>, <<>>)
    \/ \E p \in UserPaths : get(p, TRUE)
    \/ \E p \in {DefaultDocsUrl.val} : add_route(p, FALSE)
    \/ openapi

SpecSetup == Init /\ [][NextSetup]_vars

\* the last five characters of s spell ".json"
HasJsonSuffix(s) ==
    /\ Len(s) >= 5
    /\ s[Len(s) - 4] = "."
    /\ s[Len(s) - 3] = "j"
    /\ s[Len(s) - 2] = "s"
    /\ s[Len(s) - 1] = "o"
    /\ s[Len(s)] = "n"

\* a URL argument is set: it is neither None nor empty nor zero, which is
\* what the conditions of lines 124, 133 and 154 test
IsSet(u) == ~(u.kind = "none" \/ u.val = <<>> \/ u = Num(<<"0">>))

MalformedUrls ==
    \/ IsSet(openapi_url)
         /\ ~(openapi_url.kind = "str" /\ HasJsonSuffix(openapi_url.val))
    \/ IsSet(docs_url) /\ docs_url.kind # "str"
    \/ IsSet(redoc_url) /\ redoc_url.kind # "str"

RECURSIVE BuiltIn(_)
\* the routes of a list that setup registered, in order
BuiltIn(rs) ==
    IF rs = <<>> THEN <<>>
    ELSE (IF Head(rs).endpoint \in {"openapi", "swagger_ui_html",
                                    "swagger_ui_redirect", "redoc_html"}
          THEN <<Head(rs)>> ELSE <<>>) \o BuiltIn(Tail(rs))

Hidden(path, endpoint) ==
    [kind |-> "route", path |-> path, endpoint |-> endpoint,
     methods |-> "default", include_in_schema |-> FALSE, tags |-> <<>>,
     app |-> <<>>]

\* C9: the router holds, in this order and once each, a schema route iff the
\* schema URL is set, a documentation route iff the documentation URL is
\* set, a redirect helper route iff the documentation URL and the redirect
\* URL are set, a second documentation route iff its URL is set; each is
\* excluded from the schema.
C9_BuiltInRoutes ==
    phase = "ready" =>
        BuiltIn(router_routes) =
            (IF IsSet(openapi_url)
             THEN <<Hidden(openapi_url.val, "openapi")>> ELSE <<>>)
            \o (IF IsSet(docs_url)
                THEN <<Hidden(docs_url.val, "swagger_ui_html")>> ELSE <<>>)
            \o (IF IsSet(docs_url) /\ IsSet(swagger_ui_oauth2_redirect_url)
                THEN <<Hidden(swagger_ui_oauth2_redirect_url.val,
                              "swagger_ui_redirect")>>
                ELSE <<>>)
            \o (IF IsSet(redoc_url)
                THEN <<Hidden(redoc_url.val, "redoc_html")>> ELSE <<>>)

\* an application with a redirect URL but no documentation URL: it has the
\* schema route and the second documentation route only
C9_Witness ==
    /\ phase = "ready"
    /\ openapi_url = DefaultOpenapiUrl
    /\ docs_url = NoneUrl
    /\ swagger_ui_oauth2_redirect_url = DefaultOauth2RedirectUrl
    /\ redoc_url = DefaultRedocUrl
    /\ Len(BuiltIn(router_routes)) = 2
    /\ ncalls > 0

----------------------------------------------------------------------------
(* The middleware chain *)

CtorMiddlewareClasses == {"A", "B"}

\* middleware=... of the constructor: the lists of at most MaxCtorMiddleware
\* entries
CtorMiddlewareLists ==
    UNION {[1..n -> {Middleware(c, {}) : c \in CtorMiddlewareClasses}] :
               n \in 0..MaxCtorMiddleware}

NextMiddleware ==
    \/ \E dbg \in BOOLEAN, mws \in CtorMiddlewareLists :
           Construct(dbg, <<>>, DefaultOpenapiUrl, DefaultDocsUrl,
                     DefaultRedocUrl, DefaultOauth2RedirectUrl, mws,
                     EmptyDict, <<>>, <<>>)
    \/ \E c \in AddedMiddleware : add_middleware(c, {})

SpecMiddleware == Init /\ [][NextMiddleware]_vars

\* the classes of a middleware list, in order
Classes(ms) == [i \in DOMAIN ms |-> ms[i].cls]

\* C1: constructed with middleware [A, B], after add_middleware(C) and then
\* add_middleware(D) the chain is [ErrorBoundary, D, C, A, B], outer to inner.
C1_ChainOrder ==
    (/\ phase = "ready"
     /\ Classes(middleware) = <<"A", "B">>
     /\ ncalls = 2
     /\ call = Call("add_middleware", "D", NoArg)
     /\ \E i \in DOMAIN user_middleware : user_middleware[i].cls = "C")
    => Classes(user_middleware) = <<ServerErrorMiddleware, "D", "C", "A", "B">>

\* C2: the error-boundary middleware is the outermost entry of the chain of
\* every constructed application.
C2_ErrorBoundaryOutermost ==
    phase = "ready" =>
        /\ user_middleware # <<>>
        /\ user_middleware[1].cls = ServerErrorMiddleware

\* how many entries of the middleware list ms have class c
Occurrences(ms, c) == Cardinality({i \in DOMAIN ms : ms[i].cls = c})

\* C16: after construction the chain holds the error boundary once and each
\* constructor-supplied entry once, so 1 + len(middleware) entries; each
\* add_middleware call puts one entry at the front and leaves the others, in
\* their order, behind it.
C16_ChainContents ==
    [][/\ (phase' = "ready" /\ call'.op = "__init__") =>
              /\ Len(user_middleware') = 1 + Len(middleware')
              /\ Occurrences(user_middleware', ServerErrorMiddleware) = 1
              /\ \A c \in CtorMiddlewareClasses :
                     Occurrences(user_middleware', c) =
                         Occurrences(middleware', c)
       /\ IsCall("add_middleware") =>
              /\ Len(user_middleware') = Len(user_middleware) + 1
              /\ user_middleware'[1].cls = call'.a
              /\ Tail(user_middleware') = user_middleware]_vars

----------------------------------------------------------------------------
(* Requests racing on the first compilation: registration ends before the   *)
(* first request starts (CanCall)                                           *)

NextRequests ==
    \/ \E rts \in CtorRoutes, ourl \in {NoneUrl, DefaultOpenapiUrl} :
           Construct(FALSE, rts, ourl, DefaultDocsUrl, DefaultRedocUrl,
                     DefaultOauth2RedirectUrl, <<>>, EmptyDict, <<>>, <<>>)
    \/ \E a \in MountedApps : mount(PathB, a)
    \/ \E t \in Requests :
           \/ req_start(t)
           \/ req_check_url(t)
           \/ req_check_cache(t)
           \/ req_return_cached(t)
           \/ req_compile(t)
           \/ req_store(t)
           \/ req_return(t)

SpecRequests == Init /\ [][NextRequests]_vars

\* C10: with the schema URL set, every finished openapi() call has returned
\* the document of the one route list, the cache is unset or holds that
\* document (so an overwrite stores an equal document), and it holds it once
\* a call has finished.
C10_RacingFirstCompilation ==
    (phase = "ready" /\ Truthy(openapi_url)) =>
        /\ \A t \in Requests :
               pc[t] = "done" => result[t] = Returned(Some(get_openapi(routes)))
        /\ openapi_schema \in {None, Some(get_openapi(routes))}
        /\ (\E t \in Requests : pc[t] = "done") =>
               openapi_schema = Some(get_openapi(routes))

\* two requests both compiled, and the second store overwrote the first
C10_Witness ==
    /\ Truthy(openapi_url)
    /\ \E t, u \in Requests :
           /\ t # u
           /\ pc[t] = "done"
           /\ pc[u] = "l195"
           /\ local[t] # None
           /\ local[u] # None
    /\ get_openapi(routes).paths # <<>>

----------------------------------------------------------------------------
(* The hook lists and the exception handler registry *)

\* exception_handlers=... of the constructor
CtorHandlerDicts ==
    {EmptyDict,
     DictSet(EmptyDict, StarletteHTTPException, "h1"),
     DictSet(EmptyDict, "404", "h2"),
     DictSet(DictSet(DictSet(EmptyDict, StarletteHTTPException, "h1"),
                     RequestValidationError, "h2"), "404", "h1")}

\* on_startup=... and on_shutdown=... of the constructor
CtorHooks == {<<>>, <<"h0">>}

NextRegistry ==
    \/ \E ehs \in CtorHandlerDicts, startup \in CtorHooks,
          shutdown \in CtorHooks :
           Construct(FALSE, <<>>, DefaultOpenapiUrl, DefaultDocsUrl,
                     DefaultRedocUrl, DefaultOauth2RedirectUrl, <<>>, ehs,
                     startup, shutdown)
    \/ \E k \in ExceptionKeys, h \in Handlers : add_exception_handler(k, h)
    \/ \E e \in EventTypes, f \in Handlers : add_event_handler(e, f)

SpecRegistry == Init /\ [][NextRegistry]_vars

\* C11: add_event_handler with "startup" appends the function to the end of
\* the startup list only, with "shutdown" to the end of the shutdown list
\* only, and with any other event type raises and changes neither list.
C11_EventHandlers ==
    [][IsCall("add_event_handler") =>
           IF call'.a = "startup"
           THEN /\ ret'.status = "ok"
                /\ on_startup' = on_startup \o <<call'.b>>
                /\ on_shutdown' = on_shutdown
           ELSE IF call'.a = "shutdown"
           THEN /\ ret'.status = "ok"
                /\ on_shutdown' = on_shutdown \o <<call'.b>>
                /\ on_startup' = on_startup
           ELSE /\ ret'.status # "ok"
                /\ on_startup' = on_startup
                /\ on_shutdown' = on_shutdown]_vars

\* two startup handlers were added in turn, then a call with a wrong event
\* type raised and left the lists as they were
C11_Witness ==
    /\ call.op = "add_event_handler"
    /\ call.a = "start"
    /\ ret.status # "ok"
    /\ on_startup = <<"h0", "h2", "h1">>
    /\ on_shutdown = <<>>

\* the exception_handlers argument construction was called with
Supplied == call.args.exception_handlers

BuiltInKeys == {StarletteHTTPException, RequestValidationError}

\* C17: when construction completes the registry maps the HTTP-status
\* exception type and the request-validation exception type to the built-in
\* handlers, whatever the exception_handlers argument supplied for them, and
\* maps every other supplied key to its supplied handler, and nothing else.
C17_BuiltInHandlersWin ==
    (phase = "ready" /\ call.op = "__init__") =>
        /\ exception_handlers[StarletteHTTPException] = http_exception_handler
        /\ exception_handlers[RequestValidationError] =
               request_validation_exception_handler
        /\ DOMAIN exception_handlers = DOMAIN Supplied \cup BuiltInKeys
        /\ \A k \in DOMAIN Supplied \ BuiltInKeys :
               exception_handlers[k] = Supplied[k]

\* construction was given handlers for both built-in keys and for 404
C17_Witness ==
    /\ phase = "ready"
    /\ call.op = "__init__"
    /\ DOMAIN Supplied = BuiltInKeys \cup {"404"}
    /\ Supplied[StarletteHTTPException] = "h1"
    /\ exception_handlers["404"] = "h1"

----------------------------------------------------------------------------
(* The application's own route list *)

\* the routes argument construction was called with
SuppliedRoutes == call.args.routes

\* C12: when construction completes the application's route list is the
\* router's route list, entry by entry, and that list is the supplied routes
\* followed by the built-in routes.
C12_RoutesCopiedAtSetup ==
    (phase = "ready" /\ call.op = "__init__") =>
        /\ Len(routes) = Len(router_routes)
        /\ \A i \in DOMAIN routes : routes[i] = router_routes[i]
        /\ router_routes = SuppliedRoutes \o BuiltIn(router_routes)

\* construction with one supplied route and all four built-in routes
C12_Witness ==
    /\ phase = "ready"
    /\ call.op = "__init__"
    /\ Len(SuppliedRoutes) = 1
    /\ Len(routes) = 5
    /\ routes[1].endpoint = "user"
    /\ routes[5].endpoint = "redoc_html"

\* the calls that register with the router
RouterOps ==
    {"GET", "POST", "PUT", "DELETE", "OPTIONS", "HEAD", "PATCH", "TRACE",
     "add_route", "add_websocket_route", "include_router"}

\* C18: mount(path, app) appends one mount entry for app at path to the end
\* of the application's route list and leaves the router's route list, the
\* middleware chain, the handler registry, the hook lists and the schema cache
\* as they were; the verb shorthands, add_route, add_websocket_route and
\* include_router only add to the router's list and leave the application's
\* route list and those other fields as they were.
C18_MountAndRouterFrames ==
    [][/\ IsCall("mount") =>
              /\ routes' = Append(routes, Mount(call'.args.path,
                                                call'.args.routes))
              /\ UNCHANGED <<router_routes, user_middleware,
                             exception_handlers, on_startup, on_shutdown,
                             openapi_schema>>
       /\ (call'.op \in RouterOps /\ ncalls' = ncalls + 1) =>
              /\ Len(router_routes') >= Len(router_routes)
              /\ SubSeq(router_routes', 1, Len(router_routes)) = router_routes
              /\ UNCHANGED <<routes, user_middleware, exception_handlers,
                             on_startup, on_shutdown, openapi_schema>>]_vars

\* a route was registered with the router and then an application mounted:
\* the mount is the last entry of the application's list and not in the
\* router's, the registered route is in the router's list and not in the
\* application's
C18_Witness ==
    /\ call.op = "mount"
    /\ routes # <<>>
    /\ routes[Len(routes)] = Mount(call.args.path, call.args.routes)
    /\ \A i \in DOMAIN router_routes : router_routes[i].kind # "mount"
    /\ \E i \in DOMAIN router_routes :
           /\ router_routes[i].endpoint = "user"
           /\ \A j \in DOMAIN routes : routes[j] # router_routes[i]

----------------------------------------------------------------------------
(* Router inclusion *)

PrefixY == <<"/", "y">>

\* a router that has itself included a router, between two routes of its own
NestedRouter ==
    router_api_route(
        router_include_router(
            <<UserRoute(<<"/", "c">>, TRUE, <<"c">>)>>,
            <<UserRoute(<<"/", "g">>, TRUE, <<"g">>)>>,
            PrefixY, <<"u">>, FALSE),
        "GET", <<"/", "e">>, TRUE, <<>>)

IncludedRouters == ChildRouters \cup {NestedRouter}

NextRouter ==
    \/ \E rts \in CtorRoutes :
           Construct(FALSE, rts, DefaultOpenapiUrl, DefaultDocsUrl,
                     DefaultRedocUrl, DefaultOauth2RedirectUrl, <<>>,
                     EmptyDict, <<>>, <<>>)
    \/ \E r \in IncludedRouters, x \in Prefixes, ts \in {<<>>, <<"t">>},
          s \in BOOLEAN : include_router(r, x, ts, s)
    \/ get(PathA, TRUE)

SpecRouter == Init /\ [][NextRouter]_vars

\* the routes a step added to the end of the router's list
Added(i) == router_routes'[Len(router_routes) + i]

\* C13: include_router(router, prefix, tags) keeps the router's earlier routes
\* and adds one route per route of the included router, in its order; each
\* added route's path is the prefix followed by the included route's path and
\* its tags are the given tags followed by the included route's tags.
C13_PrefixAndTags ==
    [][IsCall("include_router") =>
           LET a == call'.args
           IN  /\ Len(router_routes') = Len(router_routes) + Len(a.routes)
               /\ \A i \in DOMAIN router_routes :
                      router_routes'[i] = router_routes[i]
               /\ \A i \in DOMAIN a.routes :
                      /\ Len(Added(i).path) =
                             Len(a.path) + Len(a.routes[i].path)
                      /\ \A j \in DOMAIN a.path : Added(i).path[j] = a.path[j]
                      /\ \A j \in DOMAIN a.routes[i].path :
                             Added(i).path[Len(a.path) + j] =
                                 a.routes[i].path[j]
                      /\ Len(Added(i).tags) =
                             Len(a.tags) + Len(a.routes[i].tags)
                      /\ \A j \in DOMAIN a.tags : Added(i).tags[j] = a.tags[j]
                      /\ \A j \in DOMAIN a.routes[i].tags :
                             Added(i).tags[Len(a.tags) + j] =
                                 a.routes[i].tags[j]]_vars

\* the router with a nested inclusion was included under /x with tag t: its
\* three routes came last, in order, the nested one as /x/y/g tagged t, u, g
C13_Witness ==
    /\ call.op = "include_router"
    /\ call.args.routes = NestedRouter
    /\ Len(router_routes) >= 4
    /\ LET n == Len(router_routes)
       IN  /\ router_routes[n - 2].path = <<"/", "x", "/", "c">>
           /\ router_routes[n - 1].path = <<"/", "x", "/", "y", "/", "g">>
           /\ router_routes[n - 1].tags = <<"t", "u", "g">>
           /\ router_routes[n].path = <<"/", "x", "/", "e">>
           /\ router_routes[n].tags = <<"t">>

\* C14: a route added by include_router is included in the schema exactly
\* when both the flag given to include_router and the included route's own
\* flag say so.
C14_IncludeInSchemaIsAnd ==
    [][IsCall("include_router") =>
           \A i \in DOMAIN call'.args.routes :
               Added(i).include_in_schema =
                   (call'.args.include_in_schema
                        /\ call'.args.routes[i].include_in_schema)]_vars

\* a router with a visible and a hidden route was included with the flag
\* true and then with the flag false: the four combinations give T, F, F, F
C14_Witness ==
    /\ call.op = "include_router"
    /\ ~call.args.include_in_schema
    /\ Len(call.args.routes) = 2
    /\ call.args.routes[1].include_in_schema
    /\ ~call.args.routes[2].include_in_schema
    /\ Len(router_routes) >= 4
    /\ LET n == Len(router_routes)
       IN  /\ router_routes[n - 3].include_in_schema
           /\ router_routes[n - 3].endpoint = "user"
           /\ ~router_routes[n - 2].include_in_schema
           /\ ~router_routes[n - 1].include_in_schema
           /\ ~router_routes[n].include_in_schema

----------------------------------------------------------------------------
(* The middleware installation, iteration by iteration *)

NextInstall ==
    \/ \E dbg \in BOOLEAN, mws \in CtorMiddlewareLists :
           ConstructToLoop(dbg, <<>>, DefaultOpenapiUrl, DefaultDocsUrl,
                           DefaultRedocUrl, DefaultOauth2RedirectUrl, mws,
                           EmptyDict, <<>>, <<>>)
    \/ LoopStep
    \/ LoopExit
    \/ \E c \in AddedMiddleware : add_middleware(c, {})

SpecInstall == Init /\ [][NextInstall]_vars

\* the chain before the loop of lines 173-176, by position: the constructor's
\* entries, last first, then the error boundary
BeforeLoop(i) ==
    IF i <= Len(middleware)
    THEN middleware[Len(middleware) + 1 - i].cls
    ELSE ServerErrorMiddleware

\* C15: the loop of lines 173-176 ends. Inside it the iterator's index lies
\* between 0 and the length of the list; an iteration lowers it by one
\* although the list grows by one; the loop is left when the index is 0,
\* after as many iterations as the list had entries, the entries it had
\* now being the last ones of the list.
C15_InstallationTerminates ==
    [][phase = "setup" =>
           /\ it \in 0..Len(user_middleware)
           /\ phase' = "setup" =>
                  /\ it >= 1
                  /\ it' = it - 1
                  /\ Len(user_middleware') = Len(user_middleware) + 1
           /\ phase' # "setup" =>
                  /\ phase' = "ready"
                  /\ it = 0
                  /\ Len(user_middleware') = 2 * (1 + Len(middleware))
                  /\ \A i \in 1..(1 + Len(middleware)) :
                         user_middleware'[1 + Len(middleware) + i].cls =
                             BeforeLoop(i)]_vars

\* construction with two middleware entries went through the loop and
\* returned
C15_Witness ==
    /\ phase = "ready"
    /\ call.op = "__init__"
    /\ Len(middleware) = MaxCtorMiddleware
    /\ Len(user_middleware) = 2 * (1 + Len(middleware))

====
